---- MODULE Spec2Model ----
(***************************************************************************)
(* Model of innstereo/layer_types.py: the PlaneLayer class, its accessors, *)
(* its colour derivations, and the three subclasses FaultPlaneLayer,       *)
(* LineLayer and SmallCircleLayer.                                         *)
(*                                                                         *)
(* Python values are tagged records [t, v] so that values of different     *)
(* Python types can be stored in the same attribute and compared (a setter *)
(* stores whatever object it is given).  Python numbers are modelled by    *)
(* integers (Python compares 1.0 == 1 as equal).  Two tagged values are     *)
(* compared tag first, so values of different types are simply unequal.    *)
(***************************************************************************)
EXTENDS Integers, Sequences, FiniteSets, TLC

VARIABLES layers, last, calls, created, rows

vars == <<layers, last, calls, created, rows>>

(***************************************************************************)
(* Bounds of the model.                                                    *)
(***************************************************************************)
\* Number of accessor calls made on the layers in one behaviour.
MaxCalls == 2

\* Number of layers alive at once in the behaviours with several layers.
MaxLayers == 2

(***************************************************************************)
(* Python values.                                                          *)
(***************************************************************************)
Str(s) == [t |-> "str", v |-> s]

Num(n) == [t |-> "num", v |-> n]

Bool(b) == [t |-> "bool", v |-> b]

None == [t |-> "NoneType", v |-> "None"]

\* A Gtk object (TreeStore, TreeView) held by reference.
Obj(name) == [t |-> "object", v |-> name]

\* Gdk.Color(red, green, blue): three 16-bit channels.
GdkColor(r, g, b) == [t |-> "Gdk.Color", v |-> [red |-> r, green |-> g, blue |-> b]]

\* A GdkPixbuf.Pixbuf of the given size whose pixels all hold the RGBA word pixel.
Pixbuf(w, h, pixel) == [t |-> "GdkPixbuf.Pixbuf", v |-> [width |-> w, height |-> h, fill |-> pixel]]

\* An exception object of the named class.
Exception(name) == [t |-> "exception", v |-> name]

\* The outcome of a call: a returned value or a raised exception.
Return(x) == [kind |-> "return", value |-> x]

Raise(name) == [kind |-> "raise", value |-> Exception(name)]

(***************************************************************************)
(* Construction.                                                           *)
(***************************************************************************)
\* The instance attributes PlaneLayer.__init__ assigns.
PlaneLayer_init(treestore, treeview) ==
    [data_treestore |-> treestore,
     data_treeview |-> treeview,
     type |-> Str("plane"),
     label |-> Str("Plane layer"),
     render_gcircles |-> Bool(TRUE),
     line_color |-> Str("#0000ff"),
     line_width |-> Num(1),
     line_style |-> Str("-"),
     line_alpha |-> Num(1),
     capstyle |-> Str("butt"),
     render_poles |-> Bool(FALSE),
     pole_style |-> Str("o"),
     pole_size |-> Num(8),
     pole_fill |-> Str("#ff7e00"),
     pole_edge_color |-> Str("#000000"),
     pole_edge_width |-> Num(1),
     pole_alpha |-> Num(1),
     render_linears |-> Bool(TRUE),
     marker_style |-> Str("o"),
     marker_size |-> Num(8),
     marker_fill |-> Str("#1283eb"),
     marker_edge_color |-> Str("#000000"),
     marker_edge_width |-> Num(1),
     marker_alpha |-> Num(1),
     rose_spacing |-> Num(10),
     rose_bottom |-> Num(0),
     draw_hoeppener |-> Bool(FALSE),
     draw_lp_plane |-> Bool(FALSE),
     draw_contour_fills |-> Bool(FALSE),
     draw_contour_lines |-> Bool(FALSE),
     draw_contour_labels |-> Bool(FALSE),
     render_plane_contours |-> Bool(FALSE),
     render_line_contours |-> Bool(TRUE),
     colormap |-> Str("Blues"),
     contour_resolution |-> Num(40),
     contour_method |-> Str("exponential_kamb"),
     contour_sigma |-> Num(2),
     contour_line_color |-> Str("#000000"),
     contour_use_line_color |-> Bool(TRUE),
     contour_line_width |-> Num(1),
     contour_line_style |-> Str("-"),
     contour_label_size |-> Num(12)]

\* Variant of FaultPlaneLayer.__init__ that also switches the Hoeppener arrows on.
FaultPlaneLayer_init_hoeppener(treestore, treeview) ==
    [PlaneLayer_init(treestore, treeview) EXCEPT
        !.type = Str("faultplane"),
        !.label = Str("Faultplane layer"),
        !.draw_hoeppener = Bool(TRUE)]

FaultPlaneLayer_init(treestore, treeview) ==
    [PlaneLayer_init(treestore, treeview) EXCEPT
        !.type = Str("faultplane"),
        !.label = Str("Faultplane layer")]

\* Variant of LineLayer.__init__ that leaves the inherited label.
LineLayer_init_label(treestore, treeview) ==
    [PlaneLayer_init(treestore, treeview) EXCEPT !.type = Str("line")]

LineLayer_init(treestore, treeview) ==
    [PlaneLayer_init(treestore, treeview) EXCEPT
        !.type = Str("line"),
        !.label = Str("Linear layer")]

\* Variant of SmallCircleLayer.__init__ that leaves the inherited type.
SmallCircleLayer_init_type(treestore, treeview) ==
    [PlaneLayer_init(treestore, treeview) EXCEPT !.label = Str("Small circle layer")]

SmallCircleLayer_init(treestore, treeview) ==
    [PlaneLayer_init(treestore, treeview) EXCEPT
        !.type = Str("smallcircle"),
        !.label = Str("Small circle layer")]

\* The four classes of the module.
Classes == {"PlaneLayer", "FaultPlaneLayer", "LineLayer", "SmallCircleLayer"}

\* A constructor that passes its two handles on in the wrong order.
New_swapped(cls, treestore, treeview) ==
    [class |-> cls,
     dict |-> CASE cls = "PlaneLayer" -> PlaneLayer_init(treeview, treestore)
                [] cls = "FaultPlaneLayer" -> FaultPlaneLayer_init(treeview, treestore)
                [] cls = "LineLayer" -> LineLayer_init(treeview, treestore)
                [] cls = "SmallCircleLayer" -> SmallCircleLayer_init(treeview, treestore)]

\* cls(treestore, treeview): the new object, its class and its attributes.
New(cls, treestore, treeview) ==
    [class |-> cls,
     dict |-> CASE cls = "PlaneLayer" -> PlaneLayer_init(treestore, treeview)
                [] cls = "FaultPlaneLayer" -> FaultPlaneLayer_init(treestore, treeview)
                [] cls = "LineLayer" -> LineLayer_init(treestore, treeview)
                [] cls = "SmallCircleLayer" -> SmallCircleLayer_init(treestore, treeview)]

(***************************************************************************)
(* The plain accessors.  Every plain getter is "return self.<field>" and   *)
(* every setter is "self.<field> = <argument>"; the tables give the field  *)
(* each method reads or writes.                                            *)
(***************************************************************************)
\* get_X(self): return self.<GetterField.get_X>
GetterField ==
    [get_data_treestore |-> "data_treestore",
     get_data_treeview |-> "data_treeview",
     get_layer_type |-> "type",
     get_line_color |-> "line_color",
     get_label |-> "label",
     get_line_width |-> "line_width",
     get_line_style |-> "line_style",
     get_capstyle |-> "capstyle",
     get_pole_style |-> "pole_style",
     get_pole_size |-> "pole_size",
     get_pole_fill |-> "pole_fill",
     get_pole_edge_color |-> "pole_edge_color",
     get_pole_edge_width |-> "pole_edge_width",
     get_pole_alpha |-> "pole_alpha",
     get_marker_style |-> "marker_style",
     get_marker_size |-> "marker_size",
     get_marker_fill |-> "marker_fill",
     get_marker_edge_width |-> "marker_edge_width",
     get_marker_edge_color |-> "marker_edge_color",
     get_line_alpha |-> "line_alpha",
     get_marker_alpha |-> "marker_alpha",
     get_render_gcircles |-> "render_gcircles",
     get_render_poles |-> "render_poles",
     get_render_linears |-> "render_linears",
     get_draw_contour_fills |-> "draw_contour_fills",
     get_draw_contour_lines |-> "draw_contour_lines",
     get_draw_contour_labels |-> "draw_contour_labels",
     get_render_pole_contours |-> "render_plane_contours",
     get_render_line_contours |-> "render_line_contours",
     get_rose_spacing |-> "rose_spacing",
     get_rose_bottom |-> "rose_bottom",
     get_colormap |-> "colormap",
     get_contour_resolution |-> "contour_resolution",
     get_contour_method |-> "contour_method",
     get_contour_line_width |-> "contour_line_width",
     get_contour_line_color |-> "contour_line_color",
     get_contour_sigma |-> "contour_sigma",
     get_contour_line_style |-> "contour_line_style",
     get_contour_label_size |-> "contour_label_size",
     get_use_line_color |-> "contour_use_line_color",
     get_draw_hoeppener |-> "draw_hoeppener",
     get_draw_lp_plane |-> "draw_lp_plane"]

Getters == DOMAIN GetterField

\* set_X(self, new): self.<SetterField.set_X> = new
SetterField ==
    [set_line_color |-> "line_color",
     set_label |-> "label",
     set_line_width |-> "line_width",
     set_line_style |-> "line_style",
     set_capstyle |-> "capstyle",
     set_pole_style |-> "pole_style",
     set_pole_size |-> "pole_size",
     set_pole_fill |-> "pole_fill",
     set_pole_edge_color |-> "pole_edge_color",
     set_pole_edge_width |-> "pole_edge_width",
     set_marker_style |-> "marker_style",
     set_marker_size |-> "marker_size",
     set_marker_fill |-> "marker_fill",
     set_marker_edge_width |-> "marker_edge_width",
     set_marker_edge_color |-> "marker_edge_color",
     set_line_alpha |-> "line_alpha",
     set_marker_alpha |-> "marker_alpha",
     set_render_gcircles |-> "render_gcircles",
     set_render_poles |-> "render_poles",
     set_render_linears |-> "render_linears",
     set_draw_contour_fills |-> "draw_contour_fills",
     set_draw_contour_lines |-> "draw_contour_lines",
     set_draw_contour_labels |-> "draw_contour_labels",
     set_render_pole_contours |-> "render_plane_contours",
     set_render_line_contours |-> "render_line_contours",
     set_rose_spacing |-> "rose_spacing",
     set_rose_bottom |-> "rose_bottom",
     set_colormap |-> "colormap",
     set_contour_resolution |-> "contour_resolution",
     set_contour_method |-> "contour_method",
     set_contour_line_width |-> "contour_line_width",
     set_contour_line_color |-> "contour_line_color",
     set_contour_sigma |-> "contour_sigma",
     set_contour_line_style |-> "contour_line_style",
     set_contour_label_size |-> "contour_label_size",
     set_use_line_color |-> "contour_use_line_color",
     set_draw_hoeppener |-> "draw_hoeppener",
     set_draw_lp_plane |-> "draw_lp_plane"]

Setters == DOMAIN SetterField

\* The value a plain getter returns.
GetAttr(obj, g) == obj.dict[GetterField[g]]

\* Variant of the setters in which set_render_pole_contours binds an attribute
\* named after the method, render_pole_contours, which no getter reads.
SetAttr_renamed(obj, s, new) ==
    IF s = "set_render_pole_contours"
    THEN [obj |-> [obj EXCEPT !.dict =
                      [f \in DOMAIN obj.dict \cup {"render_pole_contours"} |->
                          IF f = "render_pole_contours" THEN new ELSE obj.dict[f]]],
          outcome |-> Return(None)]
    ELSE [obj |-> [obj EXCEPT !.dict[SetterField[s]] = new],
          outcome |-> Return(None)]

\* Variant of the setters in which set_render_pole_contours binds the
\* line-contour flag.
SetAttr_swapped(obj, s, new) ==
    IF s = "set_render_pole_contours"
    THEN [obj |-> [obj EXCEPT !.dict.render_line_contours = new],
          outcome |-> Return(None)]
    ELSE [obj |-> [obj EXCEPT !.dict[SetterField[s]] = new],
          outcome |-> Return(None)]

\* Variant of the setters that clamps a negative number to 0.
SetAttr_clamped(obj, s, new) ==
    [obj |-> [obj EXCEPT !.dict[SetterField[s]] =
                 IF new.t = "num" /\ new.v < 0 THEN Num(0) ELSE new],
     outcome |-> Return(None)]

\* A setter call: one attribute is rebound to the argument, whatever the
\* argument is, and the call returns None.
SetAttr(obj, s, new) ==
    [obj |-> [obj EXCEPT !.dict[SetterField[s]] = new],
     outcome |-> Return(None)]

(***************************************************************************)
(* Strings.  TLC gives Len, \o and SubSeq on strings.                      *)
(***************************************************************************)
\* s[i:] for i >= 0 (Python slice; empty when i >= len(s)).
SliceFrom(s, i) == SubSeq(s, i + 1, Len(s))

\* s[i] as a one-character string, 0 <= i < len(s).
CharAt(s, i) == SubSeq(s, i + 1, i + 1)

LowerHex == "0123456789abcdef"

UpperHex == "0123456789ABCDEF"

IsHexDigit(c) ==
    \E i \in 1..16 : SubSeq(LowerHex, i, i) = c \/ SubSeq(UpperHex, i, i) = c

HexVal(c) ==
    (CHOOSE i \in 1..16 : SubSeq(LowerHex, i, i) = c \/ SubSeq(UpperHex, i, i) = c) - 1

IsHexString(s) == \A i \in 0..(Len(s) - 1) : IsHexDigit(CharAt(s, i))

\* The number a string of hex digits denotes.
RECURSIVE HexNumber(_)
HexNumber(s) ==
    IF Len(s) = 0 THEN 0
    ELSE 16 * HexNumber(SubSeq(s, 1, Len(s) - 1)) + HexVal(CharAt(s, Len(s) - 1))

\* The number a string of hex digits denotes, written base 256 with the most
\* significant byte first (the numbers get_pixbuf builds need 32 bits and more).
RECURSIVE HexBytes(_)
HexBytes(s) ==
    IF Len(s) = 0 THEN <<>>
    ELSE IF Len(s) = 1 THEN <<HexVal(s)>>
    ELSE Append(HexBytes(SubSeq(s, 1, Len(s) - 2)),
                16 * HexVal(CharAt(s, Len(s) - 2)) + HexVal(CharAt(s, Len(s) - 1)))

\* int(s, base=16) for a string s that starts with the prefix "0x": the digits
\* after the prefix must all be hex digits (the model's strings hold no
\* underscore and no white space), otherwise ValueError.
Python_int_base16(s) ==
    LET digits == SliceFrom(s, 2)
    IN  IF Len(digits) > 0 /\ IsHexString(digits)
        THEN Return(Num(HexBytes(digits)))
        ELSE Raise("ValueError")

\* A base-256 number without its leading zero bytes.
RECURSIVE Significant(_)
Significant(bytes) ==
    IF Len(bytes) > 0 /\ Head(bytes) = 0 THEN Significant(Tail(bytes)) ELSE bytes

\* A base-256 number as the four bytes of a guint32, most significant first.
RECURSIVE Guint32(_)
Guint32(bytes) == IF Len(bytes) < 4 THEN Guint32(<<0>> \o bytes) ELSE bytes

(***************************************************************************)
(* get_pixbuf.                                                             *)
(***************************************************************************)
\* The body shared by PlaneLayer.get_pixbuf and LineLayer.get_pixbuf, for the
\* colour attribute it reads: color[1:] needs a subscriptable value, the
\* result is formatted into "0x<...>ff" and parsed base 16, and Pixbuf.fill
\* takes a guint32 pixel (red, green, blue, alpha bytes).
PixbufOf(color) ==
    IF color.t # "str" THEN Raise("TypeError")
    ELSE LET color_alpha == Python_int_base16("0x" \o SliceFrom(color.v, 1) \o "ff")
         IN  IF color_alpha.kind = "raise" THEN color_alpha
             ELSE IF Len(Significant(color_alpha.value.v)) > 4 THEN Raise("OverflowError")
             ELSE Return(Pixbuf(16, 16, Guint32(Significant(color_alpha.value.v))))

PlaneLayer_get_pixbuf(obj) == PixbufOf(obj.dict.line_color)

\* Variant of LineLayer.get_pixbuf that reads the line colour, as the inherited
\* method does.
LineLayer_get_pixbuf_line(obj) == PixbufOf(obj.dict.line_color)

LineLayer_get_pixbuf(obj) == PixbufOf(obj.dict.marker_fill)

\* Method resolution: LineLayer overrides get_pixbuf, the other classes
\* inherit PlaneLayer's.
get_pixbuf(obj) ==
    IF obj.class = "LineLayer" THEN LineLayer_get_pixbuf(obj)
    ELSE PlaneLayer_get_pixbuf(obj)

(***************************************************************************)
(* The derived-colour getters: Gdk.RGBA(), rgba.parse(...), to_color().    *)
(* The channels of a Gdk.RGBA are kept as 16-bit numerators (c / 65535.0), *)
(* which is what gdk_rgba_parse stores for a hex colour and what           *)
(* to_color() multiplies back.                                             *)
(***************************************************************************)
\* Gdk.RGBA(): red = green = blue = alpha = 1.0.
Gdk_RGBA_new == [red |-> 65535, green |-> 65535, blue |-> 65535]

\* A hex channel of n digits widened to 16 bits.
Widen16(value, n) ==
    CASE n = 1 -> value * 4369
      [] n = 2 -> value * 257
      [] n = 3 -> value * 16 + value \div 256
      [] n = 4 -> value

\* rgba.parse(spec) for the strings of the model: "#" followed by 3, 6, 9 or
\* 12 hex digits parses; any other string (the model holds no colour name and
\* no rgb(...) form) leaves rgba as it is and returns False.
Gdk_RGBA_parse(rgba, spec) ==
    LET hex == SliceFrom(spec, 1)
        n == Len(hex) \div 3
        channel(k) == Widen16(HexNumber(SubSeq(hex, k * n + 1, (k + 1) * n)), n)
    IN  IF /\ Len(spec) \in {4, 7, 10, 13}
           /\ CharAt(spec, 0) = "#"
           /\ IsHexString(hex)
        THEN [ok |-> TRUE,
              rgba |-> [red |-> channel(0), green |-> channel(1), blue |-> channel(2)]]
        ELSE [ok |-> FALSE, rgba |-> rgba]

\* rgba.to_color(): Gdk.Color(int(red * 65535), int(green * 65535), int(blue * 65535)).
Gdk_RGBA_to_color(rgba) == GdkColor(rgba.red, rgba.green, rgba.blue)

\* The body shared by the six get_*rgba methods, for the colour attribute it
\* reads: the result of parse is not looked at; a non-string argument is
\* rejected by the binding with TypeError.
RgbaOf(color) ==
    IF color.t # "str" THEN Raise("TypeError")
    ELSE Return(Gdk_RGBA_to_color(Gdk_RGBA_parse(Gdk_RGBA_new, color.v).rgba))

\* get_*rgba(self): the attribute each method parses.
RgbaField ==
    [get_rgba |-> "line_color",
     get_marker_rgba |-> "marker_fill",
     get_pole_rgba |-> "pole_fill",
     get_pole_edge_rgba |-> "pole_edge_color",
     get_marker_edge_rgba |-> "marker_edge_color",
     get_contour_line_rgba |-> "contour_line_color"]

RgbaGetters == DOMAIN RgbaField

\* Variant of the derived-colour getters in which get_marker_edge_rgba parses
\* the marker fill.
GetRgba_fill(obj, g) ==
    IF g = "get_marker_edge_rgba" THEN RgbaOf(obj.dict.marker_fill)
    ELSE RgbaOf(obj.dict[RgbaField[g]])

GetRgba(obj, g) == RgbaOf(obj.dict[RgbaField[g]])

(***************************************************************************)
(* Inputs of the model.                                                    *)
(***************************************************************************)
\* The TreeStore and TreeView objects handed to the constructors.
Treestores == {Obj("treestore1")}

Treeviews == {Obj("treeview1")}

\* The stores handed to the constructors where several layers are created:
\* two layers are given the same store or two different ones.
SharedTreestores == {Obj("treestore1"), Obj("treestore2")}

\* The constructor arguments of a caller that may pass None for a handle.
NullableTreestores == {Obj("treestore1"), None}

NullableTreeviews == {Obj("treeview1"), None}

\* The names of the TreeStore objects of the program.
StoreNames == {"treestore1", "treestore2"}

\* The attributes that hold a colour.
ColorFields ==
    {"line_color", "pole_fill", "pole_edge_color", "marker_fill",
     "marker_edge_color", "contour_line_color"}

\* The arguments tried on setter s: for a colour a hex triplet, a string that
\* is no colour and a value of the wrong type; for a number a negative one
\* (no width, and no alpha in [0,1]); for a string another string; for a flag
\* both booleans.
Inputs ==
    [s \in Setters |->
        LET default == PlaneLayer_init(None, None)[SetterField[s]]
        IN  IF SetterField[s] \in ColorFields
            THEN {Str("#ff7e00"), Str("notacolor"), Num(-1)}
            ELSE CASE default.t = "num" -> {Num(-1)}
                   [] default.t = "str" -> {Str("--")}
                   [] default.t = "bool" -> {Bool(TRUE), Bool(FALSE)}]

(***************************************************************************)
(* The state machine.  layers holds the layer objects created so far, last *)
(* the most recent call (method, receiver, argument, outcome) and calls    *)
(* the number of accessor calls made.                                      *)
(***************************************************************************)
Call(op, self, arg, outcome) ==
    [op |-> op, self |-> self, arg |-> arg, outcome |-> outcome]

Init ==
    /\ layers = <<>>
    /\ last = Call("", 0, None, Return(None))
    /\ calls = 0
    /\ created = <<>>
    /\ rows = [n \in StoreNames |-> <<>>]

\* The record of a constructor call: the class and the two handles passed.
Created(cls, treestore, treeview) ==
    [class |-> cls, treestore |-> treestore, treeview |-> treeview]

\* cls(treestore, treeview)
Construct(cls, treestore, treeview) ==
    /\ Len(layers) = 0
    /\ layers' = Append(layers, New(cls, treestore, treeview))
    /\ last' = Call("__init__", Len(layers) + 1, None, Return(None))
    /\ created' = Append(created, Created(cls, treestore, treeview))
    /\ UNCHANGED <<calls, rows>>

\* cls(treestore, treeview) while earlier layers are alive
ConstructLayer(cls, treestore, treeview) ==
    /\ Len(layers) < MaxLayers
    /\ layers' = Append(layers, New(cls, treestore, treeview))
    /\ last' = Call("__init__", Len(layers) + 1, None, Return(None))
    /\ created' = Append(created, Created(cls, treestore, treeview))
    /\ UNCHANGED <<calls, rows>>

\* A setter whose attribute lives in the class, shared by all instances.
CallSetter_shared(l, s, new) ==
    /\ calls < MaxCalls
    /\ layers' = [k \in DOMAIN layers |-> SetAttr(layers[k], s, new).obj]
    /\ last' = Call(s, l, new, SetAttr(layers[l], s, new).outcome)
    /\ calls' = calls + 1
    /\ UNCHANGED <<created, rows>>

\* layers[l].s(new) for a setter s
CallSetter(l, s, new) ==
    /\ calls < MaxCalls
    /\ layers' = [layers EXCEPT ![l] = SetAttr(layers[l], s, new).obj]
    /\ last' = Call(s, l, new, SetAttr(layers[l], s, new).outcome)
    /\ calls' = calls + 1
    /\ UNCHANGED <<created, rows>>

\* A getter that hands its attribute out and leaves None behind.
CallGetter_taking(l, g) ==
    /\ calls < MaxCalls
    /\ last' = Call(g, l, None, Return(GetAttr(layers[l], g)))
    /\ calls' = calls + 1
    /\ layers' = [layers EXCEPT ![l].dict[GetterField[g]] = None]
    /\ UNCHANGED <<created, rows>>

\* layers[l].g() for a plain getter g
CallGetter(l, g) ==
    /\ calls < MaxCalls
    /\ last' = Call(g, l, None, Return(GetAttr(layers[l], g)))
    /\ calls' = calls + 1
    /\ UNCHANGED <<layers, created, rows>>

\* layers[l].g() for a derived-colour getter g
CallRgba(l, g) ==
    /\ calls < MaxCalls
    /\ last' = Call(g, l, None, GetRgba(layers[l], g))
    /\ calls' = calls + 1
    /\ UNCHANGED <<layers, created, rows>>

\* layers[l].get_pixbuf()
CallPixbuf(l) ==
    /\ calls < MaxCalls
    /\ last' = Call("get_pixbuf", l, None, get_pixbuf(layers[l]))
    /\ calls' = calls + 1
    /\ UNCHANGED <<layers, created, rows>>

Next ==
    \/ \E cls \in Classes, treestore \in Treestores, treeview \in Treeviews :
          Construct(cls, treestore, treeview)
    \/ \E l \in 1..Len(layers), s \in Setters : \E new \in Inputs[s] :
          CallSetter(l, s, new)
    \/ \E l \in 1..Len(layers), g \in Getters : CallGetter(l, g)
    \/ \E l \in 1..Len(layers), g \in RgbaGetters : CallRgba(l, g)
    \/ \E l \in 1..Len(layers) : CallPixbuf(l)

Spec == Init /\ [][Next]_vars

\* Several layers are created, each on one of two stores, and one accessor
\* call is made on one of them, before or after the others are created.
NextLayers ==
    \/ \E cls \in Classes, treestore \in SharedTreestores, treeview \in Treeviews :
          ConstructLayer(cls, treestore, treeview)
    \/ \E l \in 1..Len(layers), s \in Setters : \E new \in Inputs[s] :
          calls = 0 /\ CallSetter(l, s, new)
    \/ \E l \in 1..Len(layers), g \in Getters : calls = 0 /\ CallGetter(l, g)
    \/ \E l \in 1..Len(layers), g \in RgbaGetters : calls = 0 /\ CallRgba(l, g)
    \/ \E l \in 1..Len(layers) : calls = 0 /\ CallPixbuf(l)

SpecLayers == Init /\ [][NextLayers]_vars

\* One layer is created by a caller that may pass None for either handle.
NextNullable ==
    \/ \E cls \in Classes, treestore \in NullableTreestores,
             treeview \in NullableTreeviews :
          Construct(cls, treestore, treeview)
    \/ \E l \in 1..Len(layers), s \in Setters : \E new \in Inputs[s] :
          CallSetter(l, s, new)
    \/ \E l \in 1..Len(layers), g \in Getters : CallGetter(l, g)
    \/ \E l \in 1..Len(layers), g \in RgbaGetters : CallRgba(l, g)
    \/ \E l \in 1..Len(layers) : CallPixbuf(l)

SpecNullable == Init /\ [][NextNullable]_vars

(***************************************************************************)
(* Properties.                                                             *)
(***************************************************************************)
\* The getter that is paired with setter s: set_X -> get_X.
GetterOf(s) == "g" \o SliceFrom(s, 1)

\* The tag and the default label of each class, as documented.
KindTag ==
    [PlaneLayer |-> "plane", FaultPlaneLayer |-> "faultplane",
     LineLayer |-> "line", SmallCircleLayer |-> "smallcircle"]

DefaultLabel ==
    [PlaneLayer |-> "Plane layer", FaultPlaneLayer |-> "Faultplane layer",
     LineLayer |-> "Linear layer", SmallCircleLayer |-> "Small circle layer"]

\* The layers created so far.
Layers == 1..Len(layers)

\* C1: for each of the four classes get_layer_type() returns the class's fixed
\* tag right after construction and after any sequence of accessor calls: the
\* value the getter would return is the tag in every reachable state, and
\* every call of get_layer_type returned it.
C1_KindFixed ==
    \A l \in Layers :
        /\ GetAttr(layers[l], "get_layer_type") = Str(KindTag[layers[l].class])
        /\ (last.op = "get_layer_type" /\ last.self = l)
              => last.outcome = Return(Str(KindTag[layers[l].class]))

\* A small-circle layer is asked for its type after its label has been set.
C1_Witness ==
    /\ Len(layers) = 1
    /\ layers[1].class = "SmallCircleLayer"
    /\ layers[1].dict.label = Str("--")
    /\ last.op = "get_layer_type"
    /\ last.outcome = Return(Str("smallcircle"))

\* C2: set_A(v) followed by get_A() on the same layer returns v, whatever
\* calls came before.
C2_RoundTrip ==
    [][(/\ last.op \in Setters
        /\ last'.op = GetterOf(last.op)
        /\ last'.self = last.self)
          => last'.outcome = Return(last.arg)]_vars

\* get_render_pole_contours() has returned True, which is not the default:
\* set_render_pole_contours(True) was the call before it.
C2_Witness ==
    /\ last.op = "get_render_pole_contours"
    /\ last.outcome = Return(Bool(TRUE))
    /\ calls = 2

\* C3: a setter call changes only its own attribute: the class, the number of
\* layers, the set of attributes and the value every other plain getter
\* returns (the type, the store and the view among them) are what they were
\* before the call.
C3_SetterFrame ==
    [][(last'.op \in Setters /\ calls' = calls + 1)
          => LET l == last'.self
             IN  /\ Len(layers') = Len(layers)
                 /\ \A k \in Layers \ {l} : layers'[k] = layers[k]
                 /\ layers'[l].class = layers[l].class
                 /\ DOMAIN layers'[l].dict = DOMAIN layers[l].dict
                 /\ \A g \in Getters \ {GetterOf(last'.op)} :
                        GetAttr(layers'[l], g) = GetAttr(layers[l], g)]_vars

\* set_render_pole_contours(True) has run on a layer whose marker fill an
\* earlier call had changed; the marker fill and the line-contour flag stand.
C3_Witness ==
    /\ last.op = "set_render_pole_contours"
    /\ last.arg = Bool(TRUE)
    /\ layers[last.self].dict.marker_fill = Str("notacolor")
    /\ layers[last.self].dict.render_line_contours = Bool(TRUE)

\* C4: every attribute of a layer other than the type, the store and the view
\* has both a getter and a setter (so that a value other than its default can
\* be reached through the accessors).
C4_EveryAttributePaired ==
    \A l \in Layers :
        \A f \in DOMAIN layers[l].dict \ {"type", "data_treestore", "data_treeview"} :
            /\ \E g \in Getters : GetterField[g] = f
            /\ \E s \in Setters : SetterField[s] = f

\* C5: right after construction get_label() returns the class's default label,
\* and after set_label(s) it returns s while the type is the class's tag.
C5_Label ==
    \A l \in Layers :
        /\ (last.op = "__init__" /\ last.self = l)
              => GetAttr(layers[l], "get_label") = Str(DefaultLabel[layers[l].class])
        /\ (last.op = "set_label" /\ last.self = l)
              => /\ GetAttr(layers[l], "get_label") = last.arg
                 /\ GetAttr(layers[l], "get_layer_type") = Str(KindTag[layers[l].class])

\* set_label("--") has run on a line layer.
C5_Witness ==
    /\ last.op = "set_label"
    /\ last.arg = Str("--")
    /\ layers[last.self].class = "LineLayer"
    /\ layers[last.self].dict.label = Str("--")

IsHexTriplet(v) ==
    /\ v.t = "str"
    /\ Len(v.v) = 7
    /\ CharAt(v.v, 0) = "#"
    /\ \A i \in 1..6 : IsHexDigit(CharAt(v.v, i))

\* Channel k (0 red, 1 green, 2 blue) of the hex triplet v, 0..255.
Channel(v, k) == 16 * HexVal(CharAt(v.v, 2 * k + 1)) + HexVal(CharAt(v.v, 2 * k + 2))

\* The colour the swatch of a layer follows: the marker fill for a line layer,
\* the line colour for the other kinds.
SwatchSource(obj) ==
    IF GetAttr(obj, "get_layer_type") = Str("line")
    THEN GetAttr(obj, "get_marker_fill")
    ELSE GetAttr(obj, "get_line_color")

\* C7: when the source colour of the layer's kind is a #RRGGBB string,
\* get_pixbuf() returns a swatch filled with its red, green and blue bytes and
\* alpha 0xff; on a fresh layer that is (0,0,255) for a plane layer and
\* (18,131,235) for a line layer; set_line_color leaves the swatch of a line
\* layer, and set_marker_fill the swatch of the other kinds, as it was.
C7_Swatch ==
    /\ [](\A l \in Layers :
            (last.op = "get_pixbuf" /\ last.self = l) =>
                LET src == SwatchSource(layers[l])
                    kind == GetAttr(layers[l], "get_layer_type")
                IN  /\ IsHexTriplet(src) =>
                          /\ last.outcome.kind = "return"
                          /\ last.outcome.value.v.fill =
                                <<Channel(src, 0), Channel(src, 1), Channel(src, 2), 255>>
                    /\ (calls = 1 /\ kind = Str("plane")) =>
                          last.outcome.value.v.fill = <<0, 0, 255, 255>>
                    /\ (calls = 1 /\ kind = Str("line")) =>
                          last.outcome.value.v.fill = <<18, 131, 235, 255>>)
    /\ [][(calls' = calls + 1 /\ last'.op \in {"set_line_color", "set_marker_fill"}) =>
            LET l == last'.self
                line == GetAttr(layers[l], "get_layer_type") = Str("line")
            IN  ((last'.op = "set_line_color") <=> line)
                    => get_pixbuf(layers'[l]) = get_pixbuf(layers[l])]_vars

\* get_pixbuf() has run on a line layer whose marker fill had been set to
\* #ff7e00, and the swatch holds that colour.
C7_Witness ==
    /\ last.op = "get_pixbuf"
    /\ layers[last.self].class = "LineLayer"
    /\ layers[last.self].dict.marker_fill = Str("#ff7e00")
    /\ last.outcome = Return(Pixbuf(16, 16, <<255, 126, 0, 255>>))

\* The plain getter of the attribute each derived-colour getter is about.
RgbaOwnGetter ==
    [get_rgba |-> "get_line_color",
     get_marker_rgba |-> "get_marker_fill",
     get_pole_rgba |-> "get_pole_fill",
     get_pole_edge_rgba |-> "get_pole_edge_color",
     get_marker_edge_rgba |-> "get_marker_edge_color",
     get_contour_line_rgba |-> "get_contour_line_color"]

\* C8: each derived-colour getter returns the channels of the hex triplet its
\* own attribute holds (as 16-bit channels, c * 257 for the byte c), whatever
\* the other attributes hold; line colour #ff7e00 gives (255,126,0).
C8_RgbaChannels ==
    \A l \in Layers :
        \A g \in DOMAIN RgbaOwnGetter :
            LET own == GetAttr(layers[l], RgbaOwnGetter[g])
            IN  (last.op = g /\ last.self = l /\ IsHexTriplet(own)) =>
                    /\ last.outcome =
                          Return(GdkColor(257 * Channel(own, 0), 257 * Channel(own, 1),
                                          257 * Channel(own, 2)))
                    /\ (g = "get_rgba" /\ own = Str("#ff7e00")) =>
                          /\ last.outcome.value.v.red \div 257 = 255
                          /\ last.outcome.value.v.green \div 257 = 126
                          /\ last.outcome.value.v.blue \div 257 = 0

\* get_rgba() has run on a layer whose line colour had been set to #ff7e00.
C8_Witness ==
    /\ last.op = "get_rgba"
    /\ layers[last.self].dict.line_color = Str("#ff7e00")
    /\ last.outcome = Return(GdkColor(65535, 32382, 0))

\* C9: when the stored line colour is no #RRGGBB string, get_rgba() fails with
\* an error that reaches the caller instead of returning a colour.
C9_ParseErrorSurfaced ==
    \A l \in Layers :
        (/\ last.op = "get_rgba"
         /\ last.self = l
         /\ ~IsHexTriplet(GetAttr(layers[l], "get_line_color")))
            => last.outcome.kind = "raise"

\* C10: no setter fails or rejects its argument: a setter call is possible
\* with every argument, it returns None, and the paired getter then returns
\* exactly the argument (a string that is no colour, a negative width, an
\* alpha outside [0,1], a value of another type).
C10_SettersAcceptAll ==
    \A l \in Layers :
        /\ (last.op \in Setters /\ last.self = l) =>
              /\ last.outcome = Return(None)
              /\ GetAttr(layers[l], GetterOf(last.op)) = last.arg
        /\ calls < MaxCalls =>
              \A s \in Setters : \A new \in Inputs[s] : ENABLED CallSetter(l, s, new)

\* set_line_alpha(-1) has run and get_line_alpha() would return -1.
C10_Witness ==
    /\ last.op = "set_line_alpha"
    /\ last.arg = Num(-1)
    /\ last.outcome = Return(None)
    /\ GetAttr(layers[last.self], "get_line_alpha") = Num(-1)

\* C11: constructing a layer of any class with None for the store or for the
\* view fails with an error: the constructor call that was given a None handle
\* raises, and no layer holds None as its store or as its view.
C11_NullHandleRejected ==
    /\ \A l \in Layers :
          /\ layers[l].dict.data_treestore # None
          /\ layers[l].dict.data_treeview # None
    /\ (last.op = "__init__"
          /\ None \in {created[last.self].treestore, created[last.self].treeview})
          => last.outcome.kind = "raise"

\* C12: in every reachable state each of the six colour attributes of every
\* layer (line_color, pole_fill, pole_edge_color, marker_fill,
\* marker_edge_color, contour_line_color) is "#" followed by six hex digits.
C12_ColorsAlwaysHex ==
    \A l \in Layers : \A f \in ColorFields : IsHexTriplet(layers[l].dict[f])

\* C13: get_data_treestore() and get_data_treeview() of a layer return the
\* store and the view that its constructor was given, whatever accessor calls
\* have been made since; no accessor call rebinds either handle and none
\* changes the rows of a store.
C13_HandlesKept ==
    /\ [](\A l \in Layers :
            /\ GetAttr(layers[l], "get_data_treestore") = created[l].treestore
            /\ GetAttr(layers[l], "get_data_treeview") = created[l].treeview)
    /\ [][calls' = calls + 1
            => /\ rows' = rows
               /\ \A l \in Layers :
                    /\ layers'[l].dict.data_treestore = layers[l].dict.data_treestore
                    /\ layers'[l].dict.data_treeview = layers[l].dict.data_treeview]_vars

\* Two accessor calls were made, the second one get_data_treestore(), which
\* returned the store the layer was constructed with.
C13_Witness ==
    /\ calls = MaxCalls
    /\ last.op = "get_data_treestore"
    /\ last.outcome = Return(created[last.self].treestore)
    /\ layers[last.self].dict.label = Str("--")

\* Every method that reads a layer: the plain getters, the derived-colour
\* getters and get_pixbuf.
AllGetters == Getters \cup RgbaGetters \cup {"get_pixbuf"}

\* C14: every getter, the derived-colour getters and get_pixbuf included, is
\* pure: a getter call leaves every attribute of every layer (and the stores)
\* unchanged, and a getter called again on the same layer right after its own
\* call, with no other call in between, has the same outcome as the first time.
C14_GettersPure ==
    /\ [][(last'.op \in AllGetters /\ calls' = calls + 1)
            => /\ layers' = layers
               /\ rows' = rows]_vars
    /\ [][(/\ last.op \in AllGetters
           /\ calls' = calls + 1
           /\ last'.op = last.op
           /\ last'.self = last.self)
            => last'.outcome = last.outcome]_vars

\* get_pole_rgba() has returned a colour as the second call on a layer whose
\* attributes are all what the constructor set: no setter has changed the
\* layer between the two calls.
C14_Witness ==
    /\ calls > 1
    /\ last.op = "get_pole_rgba"
    /\ last.outcome.kind = "return"
    /\ layers[last.self] =
         New(created[last.self].class, created[last.self].treestore,
             created[last.self].treeview)

\* C15: with two or more layers alive, of the same class or not, on the same
\* store or not, an accessor call on one layer leaves every other layer as it
\* was; constructing a layer leaves the earlier layers as they were, and the
\* new layer starts with the defaults of its class whatever setters were
\* called on the earlier layers.
C15_LayersIndependent ==
    /\ [][calls' = calls + 1
            => /\ Len(layers') = Len(layers)
               /\ \A k \in Layers \ {last'.self} : layers'[k] = layers[k]]_vars
    /\ [][Len(layers') = Len(layers) + 1
            => \A k \in Layers : layers'[k] = layers[k]]_vars
    /\ [](last.op = "__init__"
            => layers[last.self] =
                 New(created[last.self].class, created[last.self].treestore,
                     created[last.self].treeview))

\* Two layers of the same class share a store; set_line_color("#ff7e00") has
\* run on the first one and the second one still has what its constructor set.
C15_Witness ==
    /\ Len(layers) > 1
    /\ last.op = "set_line_color"
    /\ last.self = 1
    /\ layers[1].dict.line_color = Str("#ff7e00")
    /\ layers[2].class = layers[1].class
    /\ layers[2].dict.data_treestore = layers[1].dict.data_treestore
    /\ layers[2] = New(created[2].class, created[2].treestore, created[2].treeview)

\* C16: on a freshly constructed layer get_contour_resolution() returns 100
\* and get_contour_sigma() returns 3, the defaults stated in the docstrings of
\* the two getters.
C16_DocstringDefaults ==
    last.op = "__init__"
        => /\ GetAttr(layers[last.self], "get_contour_resolution") = Num(100)
           /\ GetAttr(layers[last.self], "get_contour_sigma") = Num(3)

\* C17: in every reachable state exactly one of get_render_pole_contours() and
\* get_render_line_contours() is true on every layer: no sequence of
\* set_render_pole_contours / set_render_line_contours calls with boolean
\* arguments makes both true or both false.
C17_ExactlyOneContourTarget ==
    \A l \in Layers :
        LET pole == GetAttr(layers[l], "get_render_pole_contours")
            line == GetAttr(layers[l], "get_render_line_contours")
        IN  {pole, line} = {Bool(TRUE), Bool(FALSE)}
====
